---- MODULE Spec2Model ----
(***************************************************************************)
(* Model of two pieces of insights-core:                                   *)
(*   - falafel/mappers/rhn_server_xmlrpc.py : ServerXMLRPCLog              *)
(*     (parse_line, __contains__, get, last)                               *)
(*   - insights/combiners/selinux.py        : SELinux                      *)
(*     (__init__, _check_sestatus, _check_boot_config,                     *)
(*      _check_grub_config, ok)                                            *)
(*                                                                         *)
(* Text that the code slices, scans or matches against a pattern is a      *)
(* sequence of Unicode code points; text that the code only compares for   *)
(* equality (status fields, dictionary keys) is a TLA+ string.             *)
(* Python's None is the one-element sequence <<-1>>, which is no text.     *)
(***************************************************************************)
EXTENDS Integers, Sequences, FiniteSets, TLC

VARIABLES data, ret,
          sestatus, selinux_config, grub_config, problems, phase, okRets,
          done

logVars == <<data, ret>>
selVars == <<sestatus, selinux_config, grub_config, problems, phase, okRets, done>>
vars    == <<data, ret, sestatus, selinux_config, grub_config, problems, phase,
             okRets, done>>

(***************************************************************************)
(* Bounds of the model.                                                    *)
(***************************************************************************)
MaxLines == 2
MaxMenuentry == 2
MaxTitle == 2
MaxOkCalls == 2

\* Python's None (no character has a negative code point).
None == <<-1>>

(***************************************************************************)
(* Text.  A Python str is the sequence of the code points of its           *)
(* characters, so that the character classes of the pattern are what       *)
(* Python 3's re makes of them on a str pattern: Unicode classes.          *)
(* Text(<<"a", "b">>) is the str 'ab'.                                     *)
(***************************************************************************)
\* The printable ASCII characters, from code point 32 on (the double quote,
\* the backslash and the backtick by name).
Printable ==
  <<" ", "!", "dquote", "#", "$", "%", "&", "'", "(", ")", "*", "+", ",", "-", ".", "/",
     "0", "1", "2", "3", "4", "5", "6", "7", "8", "9", ":", ";", "<", "=", ">", "?",
     "@", "A", "B", "C", "D", "E", "F", "G", "H", "I", "J", "K", "L", "M", "N", "O",
     "P", "Q", "R", "S", "T", "U", "V", "W", "X", "Y", "Z", "[", "backslash", "]", "^", "_",
     "backtick", "a", "b", "c", "d", "e", "f", "g", "h", "i", "j", "k", "l", "m", "n", "o",
     "p", "q", "r", "s", "t", "u", "v", "w", "x", "y", "z", "{", "|", "}", "~">>

\* ord(c) of a printable ASCII character.
Ord(c) == 31 + (CHOOSE i \in 1..Len(Printable) : Printable[i] = c)

RECURSIVE Text(_)
Text(t) == IF t = <<>> THEN <<>> ELSE <<Ord(Head(t))>> \o Text(Tail(t))

\* '\n'
NL == 10

Blank  == Ord(" ")
Colon  == Ord(":")
Slash  == Ord("/")
Comma  == Ord(",")
LParen == Ord("(")
RParen == Ord(")")
Plus   == Ord("+")
Minus  == Ord("-")
Dot    == Ord(".")
Zero   == Ord("0")

InRanges(c, ranges) ==
  \E k \in 1..Len(ranges) : ranges[k][1] <= c /\ c <= ranges[k][2]

(***************************************************************************)
(* Character classes of LINE_STR, as ranges of code points (Python 3.11,   *)
(* Unicode 14.0).                                                          *)
(***************************************************************************)
\* \d below code point 128: 0-9
AsciiDigitRanges == << <<48,57>> >>

\* \d from code point 128 on: the decimal digits of the other scripts, in
\* runs of ten (0 to 9) each.
UnicodeDigitRanges ==
  << <<1632,1641>>, <<1776,1785>>, <<1984,1993>>, <<2406,2415>>, <<2534,2543>>, <<2662,2671>>,
     <<2790,2799>>, <<2918,2927>>, <<3046,3055>>, <<3174,3183>>, <<3302,3311>>, <<3430,3439>>,
     <<3558,3567>>, <<3664,3673>>, <<3792,3801>>, <<3872,3881>>, <<4160,4169>>, <<4240,4249>>,
     <<6112,6121>>, <<6160,6169>>, <<6470,6479>>, <<6608,6617>>, <<6784,6793>>, <<6800,6809>>,
     <<6992,7001>>, <<7088,7097>>, <<7232,7241>>, <<7248,7257>>, <<42528,42537>>, <<43216,43225>>,
     <<43264,43273>>, <<43472,43481>>, <<43504,43513>>, <<43600,43609>>, <<44016,44025>>, <<65296,65305>>,
     <<66720,66729>>, <<68912,68921>>, <<69734,69743>>, <<69872,69881>>, <<69942,69951>>, <<70096,70105>>,
     <<70384,70393>>, <<70736,70745>>, <<70864,70873>>, <<71248,71257>>, <<71360,71369>>, <<71472,71481>>,
     <<71904,71913>>, <<72016,72025>>, <<72784,72793>>, <<73040,73049>>, <<73120,73129>>, <<92768,92777>>,
     <<92864,92873>>, <<93008,93017>>, <<120782,120831>>, <<123200,123209>>, <<123632,123641>>, <<125264,125273>>,
     <<130032,130041>> >>

\* \w below code point 128: 0-9 A-Z _ a-z
AsciiWordRanges == << <<48,57>>, <<65,90>>, <<95,95>>, <<97,122>> >>

\* \w from code point 128 on: the letters, digits and numerics of Unicode.
UnicodeWordRanges ==
  << <<170,170>>, <<178,179>>, <<181,181>>, <<185,186>>, <<188,190>>, <<192,214>>,
     <<216,246>>, <<248,705>>, <<710,721>>, <<736,740>>, <<748,748>>, <<750,750>>,
     <<880,884>>, <<886,887>>, <<890,893>>, <<895,895>>, <<902,902>>, <<904,906>>,
     <<908,908>>, <<910,929>>, <<931,1013>>, <<1015,1153>>, <<1162,1327>>, <<1329,1366>>,
     <<1369,1369>>, <<1376,1416>>, <<1488,1514>>, <<1519,1522>>, <<1568,1610>>, <<1632,1641>>,
     <<1646,1647>>, <<1649,1747>>, <<1749,1749>>, <<1765,1766>>, <<1774,1788>>, <<1791,1791>>,
     <<1808,1808>>, <<1810,1839>>, <<1869,1957>>, <<1969,1969>>, <<1984,2026>>, <<2036,2037>>,
     <<2042,2042>>, <<2048,2069>>, <<2074,2074>>, <<2084,2084>>, <<2088,2088>>, <<2112,2136>>,
     <<2144,2154>>, <<2160,2183>>, <<2185,2190>>, <<2208,2249>>, <<2308,2361>>, <<2365,2365>>,
     <<2384,2384>>, <<2392,2401>>, <<2406,2415>>, <<2417,2432>>, <<2437,2444>>, <<2447,2448>>,
     <<2451,2472>>, <<2474,2480>>, <<2482,2482>>, <<2486,2489>>, <<2493,2493>>, <<2510,2510>>,
     <<2524,2525>>, <<2527,2529>>, <<2534,2545>>, <<2548,2553>>, <<2556,2556>>, <<2565,2570>>,
     <<2575,2576>>, <<2579,2600>>, <<2602,2608>>, <<2610,2611>>, <<2613,2614>>, <<2616,2617>>,
     <<2649,2652>>, <<2654,2654>>, <<2662,2671>>, <<2674,2676>>, <<2693,2701>>, <<2703,2705>>,
     <<2707,2728>>, <<2730,2736>>, <<2738,2739>>, <<2741,2745>>, <<2749,2749>>, <<2768,2768>>,
     <<2784,2785>>, <<2790,2799>>, <<2809,2809>>, <<2821,2828>>, <<2831,2832>>, <<2835,2856>>,
     <<2858,2864>>, <<2866,2867>>, <<2869,2873>>, <<2877,2877>>, <<2908,2909>>, <<2911,2913>>,
     <<2918,2927>>, <<2929,2935>>, <<2947,2947>>, <<2949,2954>>, <<2958,2960>>, <<2962,2965>>,
     <<2969,2970>>, <<2972,2972>>, <<2974,2975>>, <<2979,2980>>, <<2984,2986>>, <<2990,3001>>,
     <<3024,3024>>, <<3046,3058>>, <<3077,3084>>, <<3086,3088>>, <<3090,3112>>, <<3114,3129>>,
     <<3133,3133>>, <<3160,3162>>, <<3165,3165>>, <<3168,3169>>, <<3174,3183>>, <<3192,3198>>,
     <<3200,3200>>, <<3205,3212>>, <<3214,3216>>, <<3218,3240>>, <<3242,3251>>, <<3253,3257>>,
     <<3261,3261>>, <<3293,3294>>, <<3296,3297>>, <<3302,3311>>, <<3313,3314>>, <<3332,3340>>,
     <<3342,3344>>, <<3346,3386>>, <<3389,3389>>, <<3406,3406>>, <<3412,3414>>, <<3416,3425>>,
     <<3430,3448>>, <<3450,3455>>, <<3461,3478>>, <<3482,3505>>, <<3507,3515>>, <<3517,3517>>,
     <<3520,3526>>, <<3558,3567>>, <<3585,3632>>, <<3634,3635>>, <<3648,3654>>, <<3664,3673>>,
     <<3713,3714>>, <<3716,3716>>, <<3718,3722>>, <<3724,3747>>, <<3749,3749>>, <<3751,3760>>,
     <<3762,3763>>, <<3773,3773>>, <<3776,3780>>, <<3782,3782>>, <<3792,3801>>, <<3804,3807>>,
     <<3840,3840>>, <<3872,3891>>, <<3904,3911>>, <<3913,3948>>, <<3976,3980>>, <<4096,4138>>,
     <<4159,4169>>, <<4176,4181>>, <<4186,4189>>, <<4193,4193>>, <<4197,4198>>, <<4206,4208>>,
     <<4213,4225>>, <<4238,4238>>, <<4240,4249>>, <<4256,4293>>, <<4295,4295>>, <<4301,4301>>,
     <<4304,4346>>, <<4348,4680>>, <<4682,4685>>, <<4688,4694>>, <<4696,4696>>, <<4698,4701>>,
     <<4704,4744>>, <<4746,4749>>, <<4752,4784>>, <<4786,4789>>, <<4792,4798>>, <<4800,4800>>,
     <<4802,4805>>, <<4808,4822>>, <<4824,4880>>, <<4882,4885>>, <<4888,4954>>, <<4969,4988>>,
     <<4992,5007>>, <<5024,5109>>, <<5112,5117>>, <<5121,5740>>, <<5743,5759>>, <<5761,5786>>,
     <<5792,5866>>, <<5870,5880>>, <<5888,5905>>, <<5919,5937>>, <<5952,5969>>, <<5984,5996>>,
     <<5998,6000>>, <<6016,6067>>, <<6103,6103>>, <<6108,6108>>, <<6112,6121>>, <<6128,6137>>,
     <<6160,6169>>, <<6176,6264>>, <<6272,6276>>, <<6279,6312>>, <<6314,6314>>, <<6320,6389>>,
     <<6400,6430>>, <<6470,6509>>, <<6512,6516>>, <<6528,6571>>, <<6576,6601>>, <<6608,6618>>,
     <<6656,6678>>, <<6688,6740>>, <<6784,6793>>, <<6800,6809>>, <<6823,6823>>, <<6917,6963>>,
     <<6981,6988>>, <<6992,7001>>, <<7043,7072>>, <<7086,7141>>, <<7168,7203>>, <<7232,7241>>,
     <<7245,7293>>, <<7296,7304>>, <<7312,7354>>, <<7357,7359>>, <<7401,7404>>, <<7406,7411>>,
     <<7413,7414>>, <<7418,7418>>, <<7424,7615>>, <<7680,7957>>, <<7960,7965>>, <<7968,8005>>,
     <<8008,8013>>, <<8016,8023>>, <<8025,8025>>, <<8027,8027>>, <<8029,8029>>, <<8031,8061>>,
     <<8064,8116>>, <<8118,8124>>, <<8126,8126>>, <<8130,8132>>, <<8134,8140>>, <<8144,8147>>,
     <<8150,8155>>, <<8160,8172>>, <<8178,8180>>, <<8182,8188>>, <<8304,8305>>, <<8308,8313>>,
     <<8319,8329>>, <<8336,8348>>, <<8450,8450>>, <<8455,8455>>, <<8458,8467>>, <<8469,8469>>,
     <<8473,8477>>, <<8484,8484>>, <<8486,8486>>, <<8488,8488>>, <<8490,8493>>, <<8495,8505>>,
     <<8508,8511>>, <<8517,8521>>, <<8526,8526>>, <<8528,8585>>, <<9312,9371>>, <<9450,9471>>,
     <<10102,10131>>, <<11264,11492>>, <<11499,11502>>, <<11506,11507>>, <<11517,11517>>, <<11520,11557>>,
     <<11559,11559>>, <<11565,11565>>, <<11568,11623>>, <<11631,11631>>, <<11648,11670>>, <<11680,11686>>,
     <<11688,11694>>, <<11696,11702>>, <<11704,11710>>, <<11712,11718>>, <<11720,11726>>, <<11728,11734>>,
     <<11736,11742>>, <<11823,11823>>, <<12293,12295>>, <<12321,12329>>, <<12337,12341>>, <<12344,12348>>,
     <<12353,12438>>, <<12445,12447>>, <<12449,12538>>, <<12540,12543>>, <<12549,12591>>, <<12593,12686>>,
     <<12690,12693>>, <<12704,12735>>, <<12784,12799>>, <<12832,12841>>, <<12872,12879>>, <<12881,12895>>,
     <<12928,12937>>, <<12977,12991>>, <<13312,19903>>, <<19968,42124>>, <<42192,42237>>, <<42240,42508>>,
     <<42512,42539>>, <<42560,42606>>, <<42623,42653>>, <<42656,42735>>, <<42775,42783>>, <<42786,42888>>,
     <<42891,42954>>, <<42960,42961>>, <<42963,42963>>, <<42965,42969>>, <<42994,43009>>, <<43011,43013>>,
     <<43015,43018>>, <<43020,43042>>, <<43056,43061>>, <<43072,43123>>, <<43138,43187>>, <<43216,43225>>,
     <<43250,43255>>, <<43259,43259>>, <<43261,43262>>, <<43264,43301>>, <<43312,43334>>, <<43360,43388>>,
     <<43396,43442>>, <<43471,43481>>, <<43488,43492>>, <<43494,43518>>, <<43520,43560>>, <<43584,43586>>,
     <<43588,43595>>, <<43600,43609>>, <<43616,43638>>, <<43642,43642>>, <<43646,43695>>, <<43697,43697>>,
     <<43701,43702>>, <<43705,43709>>, <<43712,43712>>, <<43714,43714>>, <<43739,43741>>, <<43744,43754>>,
     <<43762,43764>>, <<43777,43782>>, <<43785,43790>>, <<43793,43798>>, <<43808,43814>>, <<43816,43822>>,
     <<43824,43866>>, <<43868,43881>>, <<43888,44002>>, <<44016,44025>>, <<44032,55203>>, <<55216,55238>>,
     <<55243,55291>>, <<63744,64109>>, <<64112,64217>>, <<64256,64262>>, <<64275,64279>>, <<64285,64285>>,
     <<64287,64296>>, <<64298,64310>>, <<64312,64316>>, <<64318,64318>>, <<64320,64321>>, <<64323,64324>>,
     <<64326,64433>>, <<64467,64829>>, <<64848,64911>>, <<64914,64967>>, <<65008,65019>>, <<65136,65140>>,
     <<65142,65276>>, <<65296,65305>>, <<65313,65338>>, <<65345,65370>>, <<65382,65470>>, <<65474,65479>>,
     <<65482,65487>>, <<65490,65495>>, <<65498,65500>>, <<65536,65547>>, <<65549,65574>>, <<65576,65594>>,
     <<65596,65597>>, <<65599,65613>>, <<65616,65629>>, <<65664,65786>>, <<65799,65843>>, <<65856,65912>>,
     <<65930,65931>>, <<66176,66204>>, <<66208,66256>>, <<66273,66299>>, <<66304,66339>>, <<66349,66378>>,
     <<66384,66421>>, <<66432,66461>>, <<66464,66499>>, <<66504,66511>>, <<66513,66517>>, <<66560,66717>>,
     <<66720,66729>>, <<66736,66771>>, <<66776,66811>>, <<66816,66855>>, <<66864,66915>>, <<66928,66938>>,
     <<66940,66954>>, <<66956,66962>>, <<66964,66965>>, <<66967,66977>>, <<66979,66993>>, <<66995,67001>>,
     <<67003,67004>>, <<67072,67382>>, <<67392,67413>>, <<67424,67431>>, <<67456,67461>>, <<67463,67504>>,
     <<67506,67514>>, <<67584,67589>>, <<67592,67592>>, <<67594,67637>>, <<67639,67640>>, <<67644,67644>>,
     <<67647,67669>>, <<67672,67702>>, <<67705,67742>>, <<67751,67759>>, <<67808,67826>>, <<67828,67829>>,
     <<67835,67867>>, <<67872,67897>>, <<67968,68023>>, <<68028,68047>>, <<68050,68096>>, <<68112,68115>>,
     <<68117,68119>>, <<68121,68149>>, <<68160,68168>>, <<68192,68222>>, <<68224,68255>>, <<68288,68295>>,
     <<68297,68324>>, <<68331,68335>>, <<68352,68405>>, <<68416,68437>>, <<68440,68466>>, <<68472,68497>>,
     <<68521,68527>>, <<68608,68680>>, <<68736,68786>>, <<68800,68850>>, <<68858,68899>>, <<68912,68921>>,
     <<69216,69246>>, <<69248,69289>>, <<69296,69297>>, <<69376,69415>>, <<69424,69445>>, <<69457,69460>>,
     <<69488,69505>>, <<69552,69579>>, <<69600,69622>>, <<69635,69687>>, <<69714,69743>>, <<69745,69746>>,
     <<69749,69749>>, <<69763,69807>>, <<69840,69864>>, <<69872,69881>>, <<69891,69926>>, <<69942,69951>>,
     <<69956,69956>>, <<69959,69959>>, <<69968,70002>>, <<70006,70006>>, <<70019,70066>>, <<70081,70084>>,
     <<70096,70106>>, <<70108,70108>>, <<70113,70132>>, <<70144,70161>>, <<70163,70187>>, <<70272,70278>>,
     <<70280,70280>>, <<70282,70285>>, <<70287,70301>>, <<70303,70312>>, <<70320,70366>>, <<70384,70393>>,
     <<70405,70412>>, <<70415,70416>>, <<70419,70440>>, <<70442,70448>>, <<70450,70451>>, <<70453,70457>>,
     <<70461,70461>>, <<70480,70480>>, <<70493,70497>>, <<70656,70708>>, <<70727,70730>>, <<70736,70745>>,
     <<70751,70753>>, <<70784,70831>>, <<70852,70853>>, <<70855,70855>>, <<70864,70873>>, <<71040,71086>>,
     <<71128,71131>>, <<71168,71215>>, <<71236,71236>>, <<71248,71257>>, <<71296,71338>>, <<71352,71352>>,
     <<71360,71369>>, <<71424,71450>>, <<71472,71483>>, <<71488,71494>>, <<71680,71723>>, <<71840,71922>>,
     <<71935,71942>>, <<71945,71945>>, <<71948,71955>>, <<71957,71958>>, <<71960,71983>>, <<71999,71999>>,
     <<72001,72001>>, <<72016,72025>>, <<72096,72103>>, <<72106,72144>>, <<72161,72161>>, <<72163,72163>>,
     <<72192,72192>>, <<72203,72242>>, <<72250,72250>>, <<72272,72272>>, <<72284,72329>>, <<72349,72349>>,
     <<72368,72440>>, <<72704,72712>>, <<72714,72750>>, <<72768,72768>>, <<72784,72812>>, <<72818,72847>>,
     <<72960,72966>>, <<72968,72969>>, <<72971,73008>>, <<73030,73030>>, <<73040,73049>>, <<73056,73061>>,
     <<73063,73064>>, <<73066,73097>>, <<73112,73112>>, <<73120,73129>>, <<73440,73458>>, <<73648,73648>>,
     <<73664,73684>>, <<73728,74649>>, <<74752,74862>>, <<74880,75075>>, <<77712,77808>>, <<77824,78894>>,
     <<82944,83526>>, <<92160,92728>>, <<92736,92766>>, <<92768,92777>>, <<92784,92862>>, <<92864,92873>>,
     <<92880,92909>>, <<92928,92975>>, <<92992,92995>>, <<93008,93017>>, <<93019,93025>>, <<93027,93047>>,
     <<93053,93071>>, <<93760,93846>>, <<93952,94026>>, <<94032,94032>>, <<94099,94111>>, <<94176,94177>>,
     <<94179,94179>>, <<94208,100343>>, <<100352,101589>>, <<101632,101640>>, <<110576,110579>>, <<110581,110587>>,
     <<110589,110590>>, <<110592,110882>>, <<110928,110930>>, <<110948,110951>>, <<110960,111355>>, <<113664,113770>>,
     <<113776,113788>>, <<113792,113800>>, <<113808,113817>>, <<119520,119539>>, <<119648,119672>>, <<119808,119892>>,
     <<119894,119964>>, <<119966,119967>>, <<119970,119970>>, <<119973,119974>>, <<119977,119980>>, <<119982,119993>>,
     <<119995,119995>>, <<119997,120003>>, <<120005,120069>>, <<120071,120074>>, <<120077,120084>>, <<120086,120092>>,
     <<120094,120121>>, <<120123,120126>>, <<120128,120132>>, <<120134,120134>>, <<120138,120144>>, <<120146,120485>>,
     <<120488,120512>>, <<120514,120538>>, <<120540,120570>>, <<120572,120596>>, <<120598,120628>>, <<120630,120654>>,
     <<120656,120686>>, <<120688,120712>>, <<120714,120744>>, <<120746,120770>>, <<120772,120779>>, <<120782,120831>>,
     <<122624,122654>>, <<123136,123180>>, <<123191,123197>>, <<123200,123209>>, <<123214,123214>>, <<123536,123565>>,
     <<123584,123627>>, <<123632,123641>>, <<124896,124902>>, <<124904,124907>>, <<124909,124910>>, <<124912,124926>>,
     <<124928,125124>>, <<125127,125135>>, <<125184,125251>>, <<125259,125259>>, <<125264,125273>>, <<126065,126123>>,
     <<126125,126127>>, <<126129,126132>>, <<126209,126253>>, <<126255,126269>>, <<126464,126467>>, <<126469,126495>>,
     <<126497,126498>>, <<126500,126500>>, <<126503,126503>>, <<126505,126514>>, <<126516,126519>>, <<126521,126521>>,
     <<126523,126523>>, <<126530,126530>>, <<126535,126535>>, <<126537,126537>>, <<126539,126539>>, <<126541,126543>>,
     <<126545,126546>>, <<126548,126548>>, <<126551,126551>>, <<126553,126553>>, <<126555,126555>>, <<126557,126557>>,
     <<126559,126559>>, <<126561,126562>>, <<126564,126564>>, <<126567,126570>>, <<126572,126578>>, <<126580,126583>>,
     <<126585,126588>>, <<126590,126590>>, <<126592,126601>>, <<126603,126619>>, <<126625,126627>>, <<126629,126633>>,
     <<126635,126651>>, <<127232,127244>>, <<130032,130041>>, <<131072,173791>>, <<173824,177976>>, <<177984,178205>>,
     <<178208,183969>>, <<183984,191456>>, <<194560,195101>>, <<196608,201546>> >>

\* \s
SpaceRanges ==
  << <<9,13>>, <<28,32>>, <<133,133>>, <<160,160>>, <<5760,5760>>, <<8192,8202>>,
     <<8232,8233>>, <<8239,8239>>, <<8287,8287>>, <<12288,12288>> >>

\* \d
IsDigit(c) ==
  IF c < 128 THEN InRanges(c, AsciiDigitRanges) ELSE InRanges(c, UnicodeDigitRanges)

\* \w
IsWord(c) ==
  IF c < 128 THEN InRanges(c, AsciiWordRanges) ELSE InRanges(c, UnicodeWordRanges)

\* \S
IsNonSpace(c) == ~InRanges(c, SpaceRanges)

\* .  (no DOTALL)
IsAnyChar(c) == c # NL

\* First code point of the range of ranges that holds c.
RangeStart(c, ranges) ==
  ranges[CHOOSE j \in 1..Len(ranges) : ranges[j][1] <= c /\ c <= ranges[j][2]][1]

\* int(c) of a decimal digit: the decimal digits of Unicode come in runs of
\* ten, zero first.
DigitVal(c) ==
  IF c < 128 THEN c - Zero ELSE (c - RangeStart(c, UnicodeDigitRanges)) % 10

\* int() of two adjacent decimal digits of s starting at index i (1-based).
Int2(s, i) == 10 * DigitVal(s[i]) + DigitVal(s[i + 1])

Int4(s, i) == 100 * Int2(s, i) + Int2(s, i + 2)

\* c is one of the ASCII digits lo to hi (a class such as [0-5] of strptime).
AsciiDigit(c, lo, hi) == (c - Zero) \in lo..hi

\* Python's  s[a:b]  (0-based, b exclusive, clipped to the string).
Slice(s, a, b) ==
  LET hi == IF b < Len(s) THEN b ELSE Len(s)
  IN  IF a >= hi THEN <<>> ELSE SubSeq(s, a + 1, hi)

\* Python's  sub in s  for strings.
StrIn(sub, s) ==
  \E i \in 0..(Len(s) - Len(sub)) : SubSeq(s, i + 1, i + Len(sub)) = sub

\* Python's  s.startswith(prefix).
StartsWith(s, prefix) ==
  /\ Len(s) >= Len(prefix)
  /\ SubSeq(s, 1, Len(prefix)) = prefix

\* c belongs to the class named cls of the pattern:  \d  \S  \w  [\w.-]
InClass(c, cls) ==
  CASE cls = "d" -> IsDigit(c)
    [] cls = "S" -> IsNonSpace(c)
    [] cls \in {"w", "w.-"} -> IsWord(c) \/ (cls = "w.-" /\ c \in {Dot, Minus})

RECURSIVE RunEnd(_, _, _)
\* Index just after the longest run of characters of class cls starting at
\* index i of s (a greedy  cls*  of the pattern).
RunEnd(s, i, cls) ==
  IF i > Len(s) \/ ~InClass(s[i], cls) THEN i ELSE RunEnd(s, i + 1, cls)

\* In a template, the letter d stands for \d.
DigitMark == Ord("d")

\* s matches, from index i on, the template t: DigitMark stands for \d, any
\* other character for itself.
MatchesAt(s, i, t) ==
  /\ Len(s) >= i + Len(t) - 1
  /\ \A k \in 1..Len(t) :
       IF t[k] = DigitMark THEN IsDigit(s[i + k - 1]) ELSE s[i + k - 1] = t[k]

\* \d{4}/\d{2}/\d{2} \d{2}:\d{2}:\d{2} followed by a blank
DateTimePat ==
  Text(<<"d","d","d","d","/","d","d","/","d","d"," ",
    "d","d",":","d","d",":","d","d"," ">>)

\* \d{2}:\d{2}
ZonePat == Text(<<"d","d",":","d","d">>)

(***************************************************************************)
(* LINE_RE.search(line).  The pattern is anchored at both ends and every   *)
(* repetition in it is followed by a character outside its class, so the   *)
(* only match, when there is one, takes the longest run at each group.     *)
(* '$' matches at the end of the line and just before a newline that ends  *)
(* it.  The result is [matched |-> FALSE] or the groups of the match.      *)
(***************************************************************************)
\* Groups client_id and args of a parenthesised tail "(" inner ")", idEnd
\* being the end of the run of digits inner starts with:
\* (?:(?P<client_id>\d+), ?)?(?P<args>.*?),?
ArgGroupsFrom(inner, idEnd) ==
  LET hasId   == idEnd > 1 /\ idEnd <= Len(inner) /\ inner[idEnd] = Comma
      afterId == IF idEnd + 1 <= Len(inner) /\ inner[idEnd + 1] = Blank
                 THEN idEnd + 2 ELSE idEnd + 1
      rest    == IF hasId THEN SubSeq(inner, afterId, Len(inner)) ELSE inner
      args    == IF Len(rest) > 0 /\ rest[Len(rest)] = Comma
                 THEN SubSeq(rest, 1, Len(rest) - 1) ELSE rest
  IN  [client_id |-> IF hasId THEN SubSeq(inner, 1, idEnd - 1) ELSE None,
       args      |-> args]

ArgGroups(inner) == ArgGroupsFrom(inner, RunEnd(inner, 1, "d"))

\* Where '$' matches: the end of the line, or just before a newline that
\* ends it.
LineEnd(line) ==
  IF Len(line) >= 1 /\ line[Len(line)] = NL THEN Len(line) - 1 ELSE Len(line)

\* Index of the first digit of the zone: [+-]? comes before it.
ZoneAt(line) ==
  IF Len(line) >= 21 /\ line[21] \in {Plus, Minus} THEN 22 ELSE 21

\* The rest of the pattern after the function group, which ends before
\* fnEnd:  (?:\((?:(?P<client_id>\d+), ?)?(?P<args>.*?),?\))?$
MatchTail(line, n, tsEnd, pidEnd, ipEnd, modEnd, fnEnd, groups) ==
  LET tail == SubSeq(line, fnEnd, n)
      ok   == /\ MatchesAt(line, 1, DateTimePat)
              /\ MatchesAt(line, tsEnd - 4, ZonePat)
              /\ n >= tsEnd + 1 /\ line[tsEnd + 1] = Blank
              /\ pidEnd > tsEnd + 2 /\ pidEnd <= n /\ line[pidEnd] = Blank
              /\ ipEnd >= pidEnd + 3 /\ ipEnd <= n
              /\ line[ipEnd - 1] = Colon /\ line[ipEnd] = Blank
              /\ modEnd > ipEnd + 1 /\ modEnd <= n /\ line[modEnd] = Slash
              /\ fnEnd > modEnd + 1
              /\ \/ tail = <<>>
                 \/ /\ Len(tail) >= 2
                    /\ tail[1] = LParen /\ tail[Len(tail)] = RParen
                    /\ \A k \in 2..(Len(tail) - 1) : IsAnyChar(tail[k])
  IN  IF ok
      THEN [matched   |-> TRUE,
            timestamp |-> SubSeq(line, 1, tsEnd),
            pid       |-> SubSeq(line, tsEnd + 2, pidEnd - 1),
            client_ip |-> SubSeq(line, pidEnd + 1, ipEnd - 2),
            module    |-> SubSeq(line, ipEnd + 1, modEnd - 1),
            function  |-> SubSeq(line, modEnd + 1, fnEnd - 1),
            client_id |-> IF tail = <<>> THEN None ELSE groups.client_id,
            args      |-> IF tail = <<>> THEN None ELSE groups.args]
      ELSE [matched |-> FALSE]

\* (?P<function>[\w.-]+) and what follows it
MatchFunction(line, n, tsEnd, pidEnd, ipEnd, modEnd, fnEnd) ==
  MatchTail(line, n, tsEnd, pidEnd, ipEnd, modEnd, fnEnd,
            ArgGroups(SubSeq(line, fnEnd + 1, n - 1)))

\* (?P<module>\w+)/ and what follows it
MatchModule(line, n, tsEnd, pidEnd, ipEnd, modEnd) ==
  MatchFunction(line, n, tsEnd, pidEnd, ipEnd, modEnd,
                RunEnd(line, modEnd + 1, "w.-"))

\* (?P<client_ip>\S+):<blank> and what follows it; the run of \S takes the
\* colon as well
MatchClientIp(line, n, tsEnd, pidEnd, ipEnd) ==
  MatchModule(line, n, tsEnd, pidEnd, ipEnd, RunEnd(line, ipEnd + 1, "w"))

\* (?P<pid>\d+)<blank> and what follows it
MatchPid(line, n, tsEnd, pidEnd) ==
  MatchClientIp(line, n, tsEnd, pidEnd, RunEnd(line, pidEnd + 1, "S"))

\* ^(?P<timestamp>...)<blank> and what follows it
MatchTimestamp(line, n, tsEnd) ==
  MatchPid(line, n, tsEnd, RunEnd(line, tsEnd + 2, "d"))

LINE_RE_search(line) == MatchTimestamp(line, LineEnd(line), ZoneAt(line) + 4)

(***************************************************************************)
(* datetime.strptime(s, "%Y/%m/%d %H:%M:%S %z") for a string s whose       *)
(* first 20 characters are  dddd/dd/dd dd:dd:dd<blank>  (the pattern       *)
(* guarantees it).  strptime matches s against its own pattern, in which   *)
(* %Y is \d\d\d\d and the other directives name ASCII digits for the       *)
(* leading digit, then converts the fields with int().  The result is      *)
(* [ok |-> FALSE] (ValueError) or the datetime <<"datetime", year, month,  *)
(* day, hour, minute, second, utcoffset in seconds>>.                      *)
(***************************************************************************)
IsLeap(y) == (y % 4 = 0 /\ y % 100 # 0) \/ y % 400 = 0

DaysInMonth(y, m) ==
  IF m = 2 THEN (IF IsLeap(y) THEN 29 ELSE 28)
  ELSE IF m \in {4, 6, 9, 11} THEN 30 ELSE 31

strptime(s) ==
  LET year   == Int4(s, 1)
      month  == Int2(s, 6)
      day    == Int2(s, 9)
      hour   == Int2(s, 12)
      minute == Int2(s, 15)
      second == Int2(s, 18)
      \* %m: 1[0-2]|0[1-9]
      monthOk == \/ AsciiDigit(s[6], 1, 1) /\ AsciiDigit(s[7], 0, 2)
                 \/ AsciiDigit(s[6], 0, 0) /\ AsciiDigit(s[7], 1, 9)
      \* %d: 3[0-1]|[1-2]\d|0[1-9]
      dayOk   == \/ AsciiDigit(s[9], 3, 3) /\ AsciiDigit(s[10], 0, 1)
                 \/ AsciiDigit(s[9], 1, 2) /\ IsDigit(s[10])
                 \/ AsciiDigit(s[9], 0, 0) /\ AsciiDigit(s[10], 1, 9)
      \* %H: 2[0-3]|[0-1]\d
      hourOk  == \/ AsciiDigit(s[12], 2, 2) /\ AsciiDigit(s[13], 0, 3)
                 \/ AsciiDigit(s[12], 0, 1) /\ IsDigit(s[13])
      \* %M: [0-5]\d
      minuteOk == AsciiDigit(s[15], 0, 5) /\ IsDigit(s[16])
      \* %S: 6[0-1]|[0-5]\d
      secondOk == \/ AsciiDigit(s[18], 6, 6) /\ AsciiDigit(s[19], 0, 1)
                  \/ AsciiDigit(s[18], 0, 5) /\ IsDigit(s[19])
      \* %z: [+-]\d\d:?[0-5]\d and nothing after it
      zoneOk == /\ Len(s) = 25
                /\ s[21] \in {Plus, Minus}
                /\ IsDigit(s[22]) /\ IsDigit(s[23])
                /\ AsciiDigit(s[24], 0, 5) /\ IsDigit(s[25])
      offset == (IF s[21] = Minus THEN -1 ELSE 1)
                  * (Int2(s, 22) * 3600 + Int2(s, 24) * 60)
      ok     == /\ zoneOk
                /\ monthOk /\ dayOk /\ hourOk /\ minuteOk /\ secondOk
                \* the datetime and timezone constructors
                /\ year >= 1
                /\ day <= DaysInMonth(year, month)
                /\ second <= 59
                /\ offset > -86400 /\ offset < 86400
  IN  IF ok
      THEN [ok |-> TRUE,
            value |-> <<"datetime", year, month, day, hour, minute, second, offset>>]
      ELSE [ok |-> FALSE]

(***************************************************************************)
(* ServerXMLRPCLog.parse_line                                              *)
(***************************************************************************)
\* for g in GROUPS: msg_info[g] = match.group(g)
StoreGroups(line, match) ==
  [raw_log   |-> line,
   timestamp |-> match.timestamp,
   pid       |-> match.pid,
   client_ip |-> match.client_ip,
   module    |-> match.module,
   function  |-> match.function,
   client_id |-> match.client_id,
   args      |-> match.args]

\* stamp[0:23] + stamp[24:26]
StampWithoutColon(stamp) == Slice(stamp, 0, 23) \o Slice(stamp, 24, 26)

\* A variant that clears the timestamp when the conversion fails.
ConvertTimestamp_null_on_failure(msg_info, conv) ==
  [msg_info EXCEPT !.timestamp = IF conv.ok THEN conv.value ELSE None]

\* try: msg_info['timestamp'] = datetime.strptime(...)  except: pass
\* conv is the outcome of strptime.
ConvertTimestamp(msg_info, conv) ==
  IF conv.ok THEN [msg_info EXCEPT !.timestamp = conv.value] ELSE msg_info

\* A variant that fills the groups with None when the line does not match.
ParseMatch_fill_none(line, match) ==
  IF match.matched
  THEN ConvertTimestamp(StoreGroups(line, match),
                        strptime(StampWithoutColon(match.timestamp)))
  ELSE [raw_log   |-> line, timestamp |-> None, pid |-> None,
        client_ip |-> None, module |-> None, function |-> None,
        client_id |-> None, args |-> None]

\* The body of parse_line once the pattern has been tried on the line.
ParseMatch(line, match) ==
  IF match.matched
  THEN ConvertTimestamp(StoreGroups(line, match),
                        strptime(StampWithoutColon(match.timestamp)))
  ELSE [raw_log |-> line]

parse_line(line) == ParseMatch(line, LINE_RE_search(line))

GROUPS == {"timestamp", "pid", "client_ip", "module", "function",
           "client_id", "args"}

(***************************************************************************)
(* ServerXMLRPCLog.__contains__, get, last over self.data                  *)
(***************************************************************************)
\* any(s in l for l in self.data)
contains(d, s) == \E i \in 1..Len(d) : StrIn(s, d[i])

RECURSIVE get(_, _)
\* [self.parse_line(l) for l in self.data if s in l]
get(d, s) ==
  IF d = <<>> THEN <<>>
  ELSE IF StrIn(s, Head(d))
       THEN <<parse_line(Head(d))>> \o get(Tail(d), s)
       ELSE get(Tail(d), s)

\* reversed(self.data[-2:])
LastTwoReversed(d) ==
  IF Len(d) = 0 THEN <<>>
  ELSE IF Len(d) = 1 THEN <<d[1]>>
  ELSE <<d[Len(d)], d[Len(d) - 1]>>

\* dict()
EmptyDict == <<>>

\* Python's truth value of a string or None.
Truthy(v) == v # None /\ v # <<>>

RECURSIVE last_loop(_, _)
\* The body of the loop of last for the line Head(cands), parsed as m.
last_step(cands, m) ==
  IF "client_ip" \notin DOMAIN m
  THEN [fault |-> "KeyError", value |-> None]   \* msg_info['client_ip']
  ELSE IF Truthy(m.client_ip)
       THEN [fault |-> "none", value |-> m]
       ELSE last_loop(Tail(cands), m)

\* for l in reversed(self.data[-2:]): ... ; return msg_info
last_loop(cands, msg_info) ==
  IF cands = <<>>
  THEN [fault |-> "none", value |-> msg_info]
  ELSE last_step(cands, parse_line(Head(cands)))

last(d) == last_loop(LastTwoReversed(d), EmptyDict)

(***************************************************************************)
(* The lines the log is made of.  A Sample is the tuple of texts that are  *)
(* substituted into the line format                                        *)
(*   <timestamp> <pid> <client_ip>: <module>/<function><tail><eol>         *)
(***************************************************************************)
Sp == Text(<<" ">>)

Compose(s) ==
  s.timestamp \o Sp \o s.pid \o Sp \o s.client_ip \o Text(<<":", " ">>)
    \o s.module \o Text(<<"/">>) \o s.function \o s.tail \o s.eol

StampGood    == Text(<<"2","0","1","6","/","0","6","/","2","1"," ","1","4",":","0","1",":","0","7"," ","+","0","1",":","0","0">>)
StampLeapDay == Text(<<"2","0","1","6","/","0","2","/","2","9"," ","2","3",":","5","9",":","5","9"," ","-","0","5",":","3","0">>)
StampMonth13 == Text(<<"2","0","1","6","/","1","3","/","2","1"," ","1","4",":","0","1",":","0","7"," ","+","0","1",":","0","0">>)
StampFeb29   == Text(<<"2","0","1","5","/","0","2","/","2","9"," ","1","4",":","0","1",":","0","7"," ","+","0","1",":","0","0">>)
StampNoSign  == Text(<<"2","0","1","6","/","0","6","/","2","1"," ","1","4",":","0","1",":","0","7"," ","0","1",":","0","0">>)

\* ARABIC-INDIC DIGIT TWO, LATIN SMALL LETTER E WITH ACUTE
ArabicTwo == 1634
EAcute == 233

\* 2016/06/2<ARABIC-INDIC DIGIT ONE> 14:01:07 +01:00
StampArabicDay ==
  SubSeq(StampGood, 1, 9) \o <<ArabicTwo - 1>> \o SubSeq(StampGood, 11, 26)
\* 2016/0<ARABIC-INDIC DIGIT SIX>/21 14:01:07 +01:00
StampArabicMonth ==
  SubSeq(StampGood, 1, 6) \o <<ArabicTwo + 4>> \o SubSeq(StampGood, 8, 26)

Pid29 == Text(<<"2","9">>)
Ip    == Text(<<"1",".","2",".","3",".","4">>)
Rhn   == Text(<<"r","h","n">>)
Fn    == Text(<<"f",".","v">>)

\* normalizable: whether the timestamp text denotes a point in time with a
\* signed offset.
Samples ==
  { [timestamp |-> StampGood, pid |-> Pid29, client_ip |-> Ip, module |-> Rhn,
     function |-> Fn, tail |-> Text(<<"(","'","x","'",",",")">>),
     eol |-> <<>>, client_id |-> None, args |-> Text(<<"'","x","'">>), normalizable |-> TRUE],
    [timestamp |-> StampGood, pid |-> Pid29, client_ip |-> Ip, module |-> Rhn,
     function |-> Fn, tail |-> Text(<<"(","1","2",","," ","'","x","'",")">>),
     eol |-> <<>>, client_id |-> Text(<<"1","2">>), args |-> Text(<<"'","x","'">>), normalizable |-> TRUE],
    [timestamp |-> StampLeapDay, pid |-> Text(<<"7">>),
     client_ip |-> Text(<<"h","o","s","t","-","1">>), module |-> Text(<<"u","p","2","d","a","t","e">>),
     function |-> Text(<<"l","o","g","i","n">>), tail |-> <<>>,
     eol |-> <<>>, client_id |-> None, args |-> None, normalizable |-> TRUE],
    [timestamp |-> StampMonth13, pid |-> Pid29, client_ip |-> Ip, module |-> Rhn,
     function |-> Fn, tail |-> <<>>,
     eol |-> <<>>, client_id |-> None, args |-> None, normalizable |-> FALSE],
    [timestamp |-> StampFeb29, pid |-> Pid29, client_ip |-> Ip, module |-> Rhn,
     function |-> Fn, tail |-> Text(<<"(","3",",",")">>),
     eol |-> <<>>, client_id |-> Text(<<"3">>), args |-> <<>>, normalizable |-> FALSE],
    [timestamp |-> StampNoSign, pid |-> Pid29, client_ip |-> Ip, module |-> Rhn,
     function |-> Fn, tail |-> <<>>,
     eol |-> <<>>, client_id |-> None, args |-> None, normalizable |-> FALSE],
    \* a day, a pid and a module written with non-ASCII digits and letters,
    \* a client with characters that are neither word characters nor blanks
    [timestamp |-> StampArabicDay, pid |-> <<ArabicTwo, ArabicTwo + 7>>,
     client_ip |-> Text(<<"[","u","@","h","%","1","]">>),
     module |-> Text(<<"c","a","f">>) \o <<EAcute>>,
     function |-> Fn, tail |-> <<>>,
     eol |-> <<>>, client_id |-> None, args |-> None, normalizable |-> TRUE],
    \* a month written with a non-ASCII digit; the line ends with a newline
    [timestamp |-> StampArabicMonth, pid |-> Pid29, client_ip |-> Ip,
     module |-> Rhn, function |-> Fn, tail |-> Text(<<"(","'","x","'",",",")">>),
     eol |-> <<NL>>, client_id |-> None, args |-> Text(<<"'","x","'">>),
     normalizable |-> FALSE] }

MatchingLines == { Compose(s) : s \in Samples }

SampleOf(line) == CHOOSE s \in Samples : Compose(s) = line

\* A line cut short, a line whose argument list is broken, free text.
LineTruncated == StampGood \o Sp \o Pid29 \o Sp \o Text(<<"1",".","2",".">>)
\* an argument list broken by a newline
LineNewlineInArgs == StampGood \o Sp \o Pid29 \o Sp \o Ip \o Text(<<":", " ">>) \o Rhn
                       \o Text(<<"/">>) \o Fn \o Text(<<"(","'","x">>) \o <<NL>>
                       \o Text(<<"'",")">>)
LineFreeText  == Text(<<"T","r","a","c","e","b","a","c","k">>)

NonMatchingLines == {LineTruncated, LineNewlineInArgs, LineFreeText}

Lines == MatchingLines \cup NonMatchingLines

Needles == {<<>>, Rhn, Text(<<"z","z","z">>)}

\* All sequences over S of length at most n.
RECURSIVE SeqsUpTo(_, _)
SeqsUpTo(S, n) ==
  IF n = 0 THEN {<<>>}
  ELSE LET shorter == SeqsUpTo(S, n - 1)
       IN  shorter \cup { Append(q, x) : q \in {r \in shorter : Len(r) = n - 1}, x \in S }

(***************************************************************************)
(* The log view: data is self.data, ret the outcome of the latest call.    *)
(***************************************************************************)
NoCall == [op |-> "none", arg |-> None, fault |-> "none", value |-> None]

InitIdleSELinux ==
  /\ sestatus = None
  /\ selinux_config = None
  /\ grub_config = None
  /\ problems = EmptyDict
  /\ phase = "idle"
  /\ okRets = <<>>
  /\ done = <<>>

InitLog ==
  /\ data \in SeqsUpTo(Lines, MaxLines)
  /\ ret = NoCall
  /\ InitIdleSELinux

ParseLine(l) ==
  /\ ret' = [op |-> "parse_line", arg |-> l, fault |-> "none",
             value |-> parse_line(l)]
  /\ UNCHANGED <<data, selVars>>

Contains(s) ==
  /\ ret' = [op |-> "contains", arg |-> s, fault |-> "none",
             value |-> contains(data, s)]
  /\ UNCHANGED <<data, selVars>>

Get(s) ==
  /\ ret' = [op |-> "get", arg |-> s, fault |-> "none", value |-> get(data, s)]
  /\ UNCHANGED <<data, selVars>>

Last ==
  /\ ret' = [op |-> "last", arg |-> None] @@ last(data)
  /\ UNCHANGED <<data, selVars>>

NextLog ==
  \/ \E l \in Lines : ParseLine(l)
  \/ \E s \in Needles : Contains(s)
  \/ \E s \in Needles : Get(s)
  \/ Last

SpecLog == InitLog /\ [][NextLog]_vars

(***************************************************************************)
(* insights/combiners/selinux.py                                           *)
(***************************************************************************)
GRUB_DISABLED == "grub_disabled"
GRUB_NOT_ENFORCING == "grub_not_enforcing"
RUNTIME_DISABLED == "sestatus_disabled"
RUNTIME_NOT_ENFORCING == "sestatus_not_enforcing"
BOOT_DISABLED == "selinux_conf_disabled"
BOOT_NOT_ENFORCING == "selinux_conf_not_enforcing"

Selinux0   == Text(<<"s","e","l","i","n","u","x","=","0">>)
Enforcing0 == Text(<<"e","n","f","o","r","c","i","n","g","=","0">>)
LinuxPrefix  == Text(<<"l","i","n","u","x">>)
KernelPrefix == Text(<<"k","e","r","n","e","l">>)

\* self.problems[k] = v
Put(p, k, v) == [x \in (DOMAIN p) \cup {k} |-> IF x = k THEN v ELSE p[x]]

\* if k not in self.problems: self.problems[k] = []
\* self.problems[k].append(line)
AppendTo(p, k, line) ==
  LET q == IF k \notin DOMAIN p THEN Put(p, k, <<>>) ELSE p
  IN  Put(q, k, Append(q[k], line))

\* A variant in which the two tests are not independent of each other.
_check_sestatus_no_elif(p, st) ==
  LET p1 == IF st.selinux_status # "enabled"
            THEN Put(p, RUNTIME_DISABLED, st.selinux_status) ELSE p
  IN  IF "current_mode" \in DOMAIN st /\ st.current_mode # "enforcing"
      THEN Put(p1, RUNTIME_NOT_ENFORCING, st.current_mode) ELSE p1

_check_sestatus(p, st) ==
  IF st.selinux_status # "enabled"
  THEN Put(p, RUNTIME_DISABLED, st.selinux_status)
  ELSE IF st.current_mode # "enforcing"
       THEN Put(p, RUNTIME_NOT_ENFORCING, st.current_mode)
       ELSE p

\* A variant without the separate case for 'disabled'.
_check_boot_config_one_case(p, cfg) ==
  IF cfg.SELINUX # "enforcing"
  THEN Put(p, BOOT_NOT_ENFORCING, cfg.SELINUX) ELSE p

\* A variant that stays silent when the runtime check has already reported.
_check_boot_config_reads_map(p, cfg) ==
  IF RUNTIME_DISABLED \in DOMAIN p THEN p
  ELSE IF cfg.SELINUX = "disabled" THEN Put(p, BOOT_DISABLED, cfg.SELINUX)
  ELSE IF cfg.SELINUX # "enforcing" THEN Put(p, BOOT_NOT_ENFORCING, cfg.SELINUX)
  ELSE p

_check_boot_config(p, cfg) ==
  LET opt_value == cfg.SELINUX
  IN  IF opt_value = "disabled"
      THEN Put(p, BOOT_DISABLED, opt_value)
      ELSE IF opt_value # "enforcing"
           THEN Put(p, BOOT_NOT_ENFORCING, opt_value)
           ELSE p

RECURSIVE EntryOptions(_, _)
\* for name, options in line: if name.startswith(prefix): append(options)
EntryOptions(entry, prefix) ==
  IF entry = <<>> THEN <<>>
  ELSE LET name    == Head(entry)[1]
           options == Head(entry)[2]
       IN  (IF StartsWith(name, prefix) THEN <<options>> ELSE <<>>)
             \o EntryOptions(Tail(entry), prefix)

RECURSIVE FamilyOptions(_, _)
\* for line in self.grub_config.get(family): ...
FamilyOptions(entries, prefix) ==
  IF entries = <<>> THEN <<>>
  ELSE EntryOptions(Head(entries), prefix) \o FamilyOptions(Tail(entries), prefix)

\* A variant that falls through to the grub1 entries as well.
kernel_lines_both_families(grub) ==
  FamilyOptions(grub.menuentry, LinuxPrefix)
    \o FamilyOptions(grub.title, KernelPrefix)

\* The first half of _check_grub_config: the list kernel_lines.
kernel_lines(grub) ==
  IF grub.menuentry # <<>>
  THEN FamilyOptions(grub.menuentry, LinuxPrefix)
  ELSE IF grub.title # <<>>
       THEN FamilyOptions(grub.title, KernelPrefix)
       ELSE <<>>

\* A variant in which a line is tested for 'enforcing=0' only when it does
\* not contain 'selinux=0'.
RECURSIVE detect_problems_elif(_, _)
detect_problems_elif(p, lines) ==
  IF lines = <<>> THEN p
  ELSE LET line == Head(lines)
       IN  detect_problems_elif(
             IF StrIn(Selinux0, line) THEN AppendTo(p, GRUB_DISABLED, line)
             ELSE IF StrIn(Enforcing0, line)
                  THEN AppendTo(p, GRUB_NOT_ENFORCING, line) ELSE p,
             Tail(lines))

RECURSIVE detect_problems(_, _)
\* The second half of _check_grub_config: for line in kernel_lines: ...
detect_problems(p, lines) ==
  IF lines = <<>> THEN p
  ELSE LET line == Head(lines)
           p1   == IF StrIn(Selinux0, line)
                   THEN AppendTo(p, GRUB_DISABLED, line) ELSE p
           p2   == IF StrIn(Enforcing0, line)
                   THEN AppendTo(p1, GRUB_NOT_ENFORCING, line) ELSE p1
       IN  detect_problems(p2, Tail(lines))

_check_grub_config(p, grub) == detect_problems(p, kernel_lines(grub))

\* SELinux.__init__: the three checks, in the order of the source.
__init__(st, cfg, grub) ==
  _check_grub_config(_check_boot_config(_check_sestatus(EmptyDict, st), cfg), grub)

\* A variant that returns the truth value of the map itself.
ok_not_negated(p) == DOMAIN p # {}

\* not bool(self.problems)
ok(p) == ~(DOMAIN p # {})

(***************************************************************************)
(* The snapshots the combiner is built from.                               *)
(***************************************************************************)
StatusSnapshots ==
  { [selinux_status |-> "enabled",  current_mode |-> "enforcing"],
    [selinux_status |-> "enabled",  current_mode |-> "permissive"],
    [selinux_status |-> "disabled"],
    [selinux_status |-> "disabled", current_mode |-> "permissive"] }

ConfigSnapshots ==
  { [SELINUX |-> "enforcing"], [SELINUX |-> "permissive"], [SELINUX |-> "disabled"] }

Linux16  == Text(<<"l","i","n","u","x","1","6">>)
Initrd16 == Text(<<"i","n","i","t","r","d","1","6">>)
OptSelinux0   == Text(<<"r","o"," ","s","e","l","i","n","u","x","=","0">>)
OptEnforcing0 == Text(<<"r","o"," ","e","n","f","o","r","c","i","n","g","=","0">>)
OptBoth       == Text(<<"e","n","f","o","r","c","i","n","g","=","0"," ","n","o","s","e","l","i","n","u","x","=","0">>)
OptQuiet      == Text(<<"r","o"," ","q","u","i","e","t">>)
OptInitrd     == Text(<<"i",".","i","m","g"," ","e","n","f","o","r","c","i","n","g","=","0">>)

\* Bootloader entries: each a sequence of (name, options) pairs.
GrubEntries ==
  { << <<Linux16, OptSelinux0>>, <<Initrd16, OptInitrd>> >>,
    << <<LinuxPrefix, OptBoth>>, <<Linux16, OptQuiet>> >>,
    << <<KernelPrefix, OptSelinux0>>, <<KernelPrefix, OptEnforcing0>> >>,
    << <<KernelPrefix, OptQuiet>>, <<Linux16, OptEnforcing0>> >> }

GrubSnapshots ==
  { [menuentry |-> m, title |-> t] :
      m \in SeqsUpTo(GrubEntries, MaxMenuentry), t \in SeqsUpTo(GrubEntries, MaxTitle) }

InitIdleLog ==
  /\ data = <<>>
  /\ ret = NoCall

InitSELinux ==
  /\ sestatus \in StatusSnapshots
  /\ selinux_config \in ConfigSnapshots
  /\ grub_config \in GrubSnapshots
  /\ problems = EmptyDict
  /\ phase = "new"
  /\ okRets = <<>>
  /\ done = <<>>
  /\ InitIdleLog

\* shared[SELinux] is built: __init__ runs to its end.
Construct ==
  /\ phase = "new"
  /\ problems' = __init__(sestatus, selinux_config, grub_config)
  /\ phase' = "built"
  /\ UNCHANGED <<sestatus, selinux_config, grub_config, okRets, done, logVars>>

\* selinux.ok()
Ok ==
  /\ phase = "built"
  /\ Len(okRets) < MaxOkCalls
  /\ okRets' = Append(okRets, ok(problems))
  /\ UNCHANGED <<sestatus, selinux_config, grub_config, problems, phase, done,
                 logVars>>

NextSELinux == Construct \/ Ok

SpecSELinux == InitSELinux /\ [][NextSELinux]_vars

(***************************************************************************)
(* The same construction with the three checks run one at a time in any    *)
(* order; done lists the checks run so far, in the order they ran.         *)
(***************************************************************************)
Checks == {"sestatus", "boot_config", "grub_config"}

Ran(c) == \E i \in 1..Len(done) : done[i] = c

RunSestatus ==
  /\ ~Ran("sestatus")
  /\ problems' = _check_sestatus(problems, sestatus)
  /\ done' = Append(done, "sestatus")
  /\ phase' = IF Len(done') = 3 THEN "built" ELSE "building"
  /\ UNCHANGED <<sestatus, selinux_config, grub_config, okRets, logVars>>

RunBootConfig ==
  /\ ~Ran("boot_config")
  /\ problems' = _check_boot_config(problems, selinux_config)
  /\ done' = Append(done, "boot_config")
  /\ phase' = IF Len(done') = 3 THEN "built" ELSE "building"
  /\ UNCHANGED <<sestatus, selinux_config, grub_config, okRets, logVars>>

RunGrubConfig ==
  /\ ~Ran("grub_config")
  /\ problems' = _check_grub_config(problems, grub_config)
  /\ done' = Append(done, "grub_config")
  /\ phase' = IF Len(done') = 3 THEN "built" ELSE "building"
  /\ UNCHANGED <<sestatus, selinux_config, grub_config, okRets, logVars>>

NextPerm == RunSestatus \/ RunBootConfig \/ RunGrubConfig

SpecPerm == InitSELinux /\ [][NextPerm]_vars

(***************************************************************************)
(* Properties of the log view (SpecLog).                                   *)
(***************************************************************************)
SecondLast == data[Len(data) - 1]
VeryLast   == data[Len(data)]

\* A line that yields a client IP / a line that yields none.
HasClientIp(l) == l \in MatchingLines /\ SampleOf(l).client_ip # <<>>
NoClientIp(l)  == l \in NonMatchingLines

\* C1: when the second-to-last line has a client IP and the last line does
\* not match the line format, last() raises no fault and returns the parsed
\* record of the second-to-last line.
C1_LastFallsBackToSecondLast ==
  (/\ ret.op = "last"
   /\ Len(data) >= 2
   /\ HasClientIp(SecondLast)
   /\ NoClientIp(VeryLast))
    => (ret.fault = "none" /\ ret.value = parse_line(SecondLast))

\* C2: when neither of the final two lines yields a client IP, last() raises
\* no fault and returns the parse result of the very last line, a record
\* holding that line as its raw log.
C2_LastGivesUpWithVeryLast ==
  (/\ ret.op = "last"
   /\ Len(data) >= 2
   /\ NoClientIp(SecondLast)
   /\ NoClientIp(VeryLast))
    => (/\ ret.fault = "none"
        /\ ret.value = parse_line(VeryLast)
        /\ ret.value.raw_log = VeryLast)

\* The fields other than the timestamp hold the texts the line was made of.
FieldsFromLine(rec, smp) ==
  /\ rec.pid = smp.pid
  /\ rec.client_ip = smp.client_ip
  /\ rec.module = smp.module
  /\ rec.function = smp.function
  /\ rec.client_id = smp.client_id
  /\ rec.args = smp.args

UnconvertibleCall ==
  /\ ret.op = "parse_line"
  /\ ret.arg \in MatchingLines
  /\ ~SampleOf(ret.arg).normalizable

\* C3 (as stated): for a line that matches the pattern and whose timestamp
\* cannot be normalized, parse raises no fault, populates pid, client IP,
\* module and function from the line and leaves the timestamp null.
C3_TimestampNullOnFailure ==
  UnconvertibleCall
    => (/\ ret.fault = "none"
        /\ FieldsFromLine(ret.value, SampleOf(ret.arg))
        /\ ret.value.timestamp = None)

\* C3 (amended): for a line that matches the pattern and whose timestamp
\* cannot be normalized, parse raises no fault, populates pid, client IP,
\* module and function from the line and leaves in the timestamp field the
\* matched timestamp text, unconverted.
C3_TimestampKeepsTextOnFailure ==
  UnconvertibleCall
    => (/\ ret.fault = "none"
        /\ FieldsFromLine(ret.value, SampleOf(ret.arg))
        /\ ret.value.timestamp = SampleOf(ret.arg).timestamp)

C3_Witness ==
  /\ UnconvertibleCall
  /\ SampleOf(ret.arg).timestamp = StampMonth13
  /\ ret.value.timestamp = StampMonth13
  /\ ret.value.pid = Pid29

\* C9: parse returns, without a fault, a record whose raw log is the input
\* line verbatim; for a line that does not match the pattern the raw log is
\* the only field, and for a line that matches, timestamp, pid, client IP,
\* module, function, client id and args are all present (client id and args
\* possibly null).
C9_ParseAlwaysKeepsRawLog ==
  ret.op = "parse_line"
    => (/\ ret.fault = "none"
        /\ ret.value.raw_log = ret.arg
        /\ (ret.arg \in NonMatchingLines => DOMAIN ret.value = {"raw_log"})
        /\ (ret.arg \in MatchingLines
              => /\ DOMAIN ret.value = GROUPS \cup {"raw_log"}
                 /\ FieldsFromLine(ret.value, SampleOf(ret.arg))))

C9_Witness ==
  /\ ret.op = "parse_line"
  /\ ret.arg = LineTruncated
  /\ DOMAIN ret.value = {"raw_log"}
  /\ ret.value.raw_log = LineTruncated

(***************************************************************************)
(* Properties of the combiner (SpecSELinux, SpecPerm).                     *)
(***************************************************************************)
Built == phase = "built"

\* The list recorded under a grub key, empty when the key is absent.
ListOf(p, k) == IF k \in DOMAIN p THEN p[k] ELSE <<>>

GrubPart(p) == [k \in (DOMAIN p) \cap {GRUB_DISABLED, GRUB_NOT_ENFORCING} |-> p[k]]

Elems(q) == { q[i] : i \in 1..Len(q) }

\* Options of the pairs of a family whose name starts with prefix.
NamedOptions(entries, prefix) ==
  UNION { { e[j][2] : j \in { i \in 1..Len(e) : StartsWith(e[i][1], prefix) } }
          : e \in Elems(entries) }

SelectedOptions ==
  IF grub_config.menuentry # <<>>
  THEN NamedOptions(grub_config.menuentry, LinuxPrefix)
  ELSE NamedOptions(grub_config.title, KernelPrefix)

Reported == Elems(ListOf(problems, GRUB_DISABLED))
              \cup Elems(ListOf(problems, GRUB_NOT_ENFORCING))

\* C4: exactly one entry family is inspected.  With a non-empty menuentry
\* set only options of menuentry pairs named linux* are reported and the
\* title entries change nothing, even when no menuentry pair is a kernel
\* line; the title family (pairs named kernel*) is reported only when there
\* is no menuentry entry; with neither family no grub problem is recorded.
C4_OneFamilyInspected ==
  Built =>
    /\ Reported \subseteq SelectedOptions
    /\ \A o \in SelectedOptions :
         /\ StrIn(Selinux0, o) => o \in Elems(ListOf(problems, GRUB_DISABLED))
         /\ StrIn(Enforcing0, o) => o \in Elems(ListOf(problems, GRUB_NOT_ENFORCING))
    /\ grub_config.menuentry # <<>> =>
         GrubPart(problems) =
           GrubPart(__init__(sestatus, selinux_config,
                             [grub_config EXCEPT !.title = <<>>]))
    /\ (grub_config.menuentry = <<>> /\ grub_config.title = <<>>) =>
         DOMAIN GrubPart(problems) = {}

\* A menuentry entry without any linux* pair, a title entry with offending
\* kernel* pairs: nothing is reported.
C4_Witness ==
  /\ Built
  /\ grub_config.menuentry # <<>>
  /\ NamedOptions(grub_config.menuentry, LinuxPrefix) = {}
  /\ \E o \in NamedOptions(grub_config.title, KernelPrefix) : StrIn(Selinux0, o)
  /\ DOMAIN GrubPart(problems) = {}

\* C5: the runtime check has exactly one of three outcomes: a status other
\* than 'enabled' is recorded as runtime-disabled and runtime-not-enforcing
\* is absent whatever the mode; else a mode other than 'enforcing' is
\* recorded as runtime-not-enforcing and runtime-disabled is absent; else
\* neither key is present.
C5_RuntimeCheckOutcome ==
  Built =>
    IF sestatus.selinux_status # "enabled"
    THEN /\ RUNTIME_DISABLED \in DOMAIN problems
         /\ problems[RUNTIME_DISABLED] = sestatus.selinux_status
         /\ RUNTIME_NOT_ENFORCING \notin DOMAIN problems
    ELSE IF sestatus.current_mode # "enforcing"
    THEN /\ RUNTIME_NOT_ENFORCING \in DOMAIN problems
         /\ problems[RUNTIME_NOT_ENFORCING] = sestatus.current_mode
         /\ RUNTIME_DISABLED \notin DOMAIN problems
    ELSE /\ RUNTIME_DISABLED \notin DOMAIN problems
         /\ RUNTIME_NOT_ENFORCING \notin DOMAIN problems

\* Status disabled with a mode that is not enforcing: only runtime-disabled.
C5_Witness ==
  /\ Built
  /\ sestatus = [selinux_status |-> "disabled", current_mode |-> "permissive"]
  /\ problems[RUNTIME_DISABLED] = "disabled"
  /\ RUNTIME_NOT_ENFORCING \notin DOMAIN problems

\* C6: the boot-config check has exactly one outcome per SELINUX value:
\* 'disabled' is recorded as boot-disabled, 'enforcing' records nothing, any
\* other value is recorded as boot-not-enforcing; and the key of its
\* not-enforcing case differs from the key of the runtime check's.
C6_BootConfigOutcome ==
  /\ BOOT_NOT_ENFORCING # RUNTIME_NOT_ENFORCING
  /\ Built =>
       IF selinux_config.SELINUX = "disabled"
       THEN /\ BOOT_DISABLED \in DOMAIN problems
            /\ problems[BOOT_DISABLED] = "disabled"
            /\ BOOT_NOT_ENFORCING \notin DOMAIN problems
       ELSE IF selinux_config.SELINUX = "enforcing"
       THEN /\ BOOT_DISABLED \notin DOMAIN problems
            /\ BOOT_NOT_ENFORCING \notin DOMAIN problems
       ELSE /\ BOOT_NOT_ENFORCING \in DOMAIN problems
            /\ problems[BOOT_NOT_ENFORCING] = selinux_config.SELINUX
            /\ BOOT_DISABLED \notin DOMAIN problems

\* Runtime and boot configuration both permissive: two separate entries.
C6_Witness ==
  /\ Built
  /\ selinux_config.SELINUX = "permissive"
  /\ sestatus = [selinux_status |-> "enabled", current_mode |-> "permissive"]
  /\ problems[BOOT_NOT_ENFORCING] = "permissive"
  /\ problems[RUNTIME_NOT_ENFORCING] = "permissive"

\* C7: whatever the order in which the three checks run, the resulting map
\* is the one the construction builds (same keys, same values, same lists
\* in the same order).
C7_OrderIndependent ==
  Len(done) = Cardinality(Checks)
    => problems = __init__(sestatus, selinux_config, grub_config)

\* The checks run in the reverse of the source's order, each one recording
\* something.
C7_Witness ==
  /\ done = <<"grub_config", "boot_config", "sestatus">>
  /\ RUNTIME_DISABLED \in DOMAIN problems
  /\ BOOT_NOT_ENFORCING \in DOMAIN problems
  /\ Len(ListOf(problems, GRUB_DISABLED)) >= 2
  /\ Len(ListOf(problems, GRUB_NOT_ENFORCING)) >= 1

\* The inputs that show no problem at all.
HealthyInputs ==
  /\ sestatus.selinux_status = "enabled"
  /\ "current_mode" \in DOMAIN sestatus
  /\ sestatus.current_mode = "enforcing"
  /\ selinux_config.SELINUX = "enforcing"
  /\ \A o \in SelectedOptions : ~StrIn(Selinux0, o) /\ ~StrIn(Enforcing0, o)

\* C8: every call of ok() returns true iff the map built at construction
\* has no entry, which is the case iff the inputs are healthy; the calls
\* leave the map as the construction built it.
C8_OkVerdict ==
  /\ Built => ((DOMAIN problems = {}) <=> HealthyInputs)
  /\ \A i \in 1..Len(okRets) :
       /\ okRets[i] = (DOMAIN problems = {})
       /\ okRets[i] = HealthyInputs
       /\ problems = __init__(sestatus, selinux_config, grub_config)

C8_Witness ==
  /\ Len(okRets) = 2
  /\ okRets[1] = TRUE
  /\ okRets[2] = TRUE
  /\ grub_config.menuentry # <<>>
  /\ grub_config.title # <<>>

\* C10: the grub-disabled list is the subsequence of the collected kernel
\* lines containing 'selinux=0', the grub-not-enforcing list the subsequence
\* containing 'enforcing=0', in collection order with duplicates kept; a
\* line containing both is in both; a grub key is present only with a
\* non-empty list.
C10_GrubListsAreSubsequences ==
  Built =>
    LET lines == kernel_lines(grub_config)
        HasSelinux0(l) == StrIn(Selinux0, l)
        HasEnforcing0(l) == StrIn(Enforcing0, l)
    IN  /\ ListOf(problems, GRUB_DISABLED) = SelectSeq(lines, HasSelinux0)
        /\ ListOf(problems, GRUB_NOT_ENFORCING) = SelectSeq(lines, HasEnforcing0)
        /\ \A k \in DOMAIN GrubPart(problems) : problems[k] # <<>>
        /\ \A i \in 1..Len(lines) :
             (HasSelinux0(lines[i]) /\ HasEnforcing0(lines[i]))
               => /\ lines[i] \in Elems(ListOf(problems, GRUB_DISABLED))
                  /\ lines[i] \in Elems(ListOf(problems, GRUB_NOT_ENFORCING))

\* The same offending line collected twice, and a line in both lists.
C10_Witness ==
  /\ Built
  /\ \E i, j \in 1..Len(ListOf(problems, GRUB_DISABLED)) :
       i < j /\ problems[GRUB_DISABLED][i] = problems[GRUB_DISABLED][j]
  /\ \E l \in Elems(ListOf(problems, GRUB_DISABLED)) :
       l \in Elems(ListOf(problems, GRUB_NOT_ENFORCING))

====
